---- MODULE Spec2Model ----
(***************************************************************************)
(* Model of deepeval/metrics/dag/nodes.py: the node constructors           *)
(* (__post_init__), the join counter, the verdict gate and the two         *)
(* traversals (_execute, sequential; _a_execute, asyncio).                 *)
(*                                                                         *)
(* A behaviour first builds a graph by constructor calls, then runs a      *)
(* sequential pass on one instance of the graph and an asyncio pass on a   *)
(* second, identically built instance, with the same judge stub; further   *)
(* passes on the same two instances follow.                                *)
(***************************************************************************)
EXTENDS Integers, Sequences, FiniteSets, TLC

(***************************************************************************)
(* Bounds                                                                  *)
(***************************************************************************)
\* longest children list tried by the constructor calls on the pool
MaxChildren == 3
\* the depth argument of the root call ranges over 0..MaxDepth0
MaxDepth0 == 1
\* the score arguments tried range over -1..MaxScoreArg
MaxScoreArg == 11
\* the number of passes run on one instance of the graph
MaxPasses == 2

(***************************************************************************)
(* Program constants                                                       *)
(***************************************************************************)
MinScore == 0
MaxScore == 10
ScoreDivisor == 10

(***************************************************************************)
(* Python values                                                           *)
(***************************************************************************)
\* Optional[...]: None is the empty tuple, a value x is <<x>>
None == <<>>
Some(x) == <<x>>
IsNone(o) == Len(o) = 0
Val(o) == o[1]

\* the verdict label of a VerdictNode: Union[str, bool] (and, unchecked by
\* the dataclass, any other type)
BoolLabel(b) == [type |-> "bool", val |-> IF b THEN "True" ELSE "False"]
StrLabel(s) == [type |-> "str", val |-> s]
IntLabel == [type |-> "int", val |-> "1"]
NoLabel == [type |-> "none", val |-> ""]

\* a / b of two ints, kept as a fraction
TrueDiv(a, b) == [num |-> a, den |-> b]

Strategies == {"seq", "par"}

VARIABLES
    nodes,      \* the constructed nodes, in construction order
    calls,      \* the successful constructor calls so far
    ctor,       \* the last constructor call and its outcome
    phase,      \* "build", "rejected" (a constructor raised) or "run"
    pass,       \* the arguments of the pass: root, depth, judge stub, metric flags
    inst,       \* per strategy, per node: the transient fields of its instance
    metric,     \* per strategy: the enclosing metric's log, score, reason, cost
    stack,      \* the call stack of the sequential pass
    seqStatus,  \* "idle", "running", "returned" or "raised"
    tasks,      \* the asyncio tasks of the parallel pass
    ready,      \* the event loop's FIFO queue of runnable tasks
    parStatus   \* "idle", "running", "returned" or "raised"

vars == <<nodes, calls, ctor, phase, pass, inst, metric, stack, seqStatus,
          tasks, ready, parStatus>>

buildVars == <<nodes, calls, ctor>>
runVars == <<pass, inst, metric, stack, seqStatus, tasks, ready, parStatus>>
seqVars == <<stack, seqStatus>>
parVars == <<tasks, ready, parStatus>>

(***************************************************************************)
(* Construction                                                            *)
(***************************************************************************)
NodeIds == 1..Len(nodes)

\* the fields of a freshly constructed dataclass instance
NewNode(kind, verdict, score, g_eval, children) ==
    [kind |-> kind, verdict |-> verdict, score |-> score, g_eval |-> g_eval,
     children |-> children, _parent |-> None, _parents |-> None,
     _indegree |-> None, _verdict_options |-> {}]

\* BaseNode.set_parent: a VerdictNode has the single slot _parent, the other
\* nodes have the list _parents
set_parent(ns, c, p) ==
    IF ns[c].kind = "Verdict"
    THEN [ns EXCEPT ![c]._parent = Some(p)]
    ELSE [ns EXCEPT ![c]._parents =
              Some(Append(IF IsNone(@) THEN <<>> ELSE Val(@), p))]

increment_indegree(ns, c) ==
    [ns EXCEPT ![c]._indegree = IF IsNone(@) THEN Some(1) ELSE Some(Val(@) + 1)]

\* mutants of decrement_indegree: the counter is zeroed; it is decremented
\* twice; it is not decremented below zero
decrement_indegree_Floored(ind) ==
    IF IsNone(ind) \/ Val(ind) <= 1 THEN Some(0) ELSE Some(Val(ind) - 1)
decrement_indegree_Zeroed(ind) == Some(0)
decrement_indegree_Twice(ind) ==
    IF IsNone(ind) THEN Some(0) ELSE Some(Val(ind) - 2)

decrement_indegree(ind) ==
    IF IsNone(ind) THEN Some(0) ELSE Some(Val(ind) - 1)

\* for child in self.children: child.set_parent(self); increment_indegree(child)
RECURSIVE RegisterChildren(_, _, _, _)
RegisterChildren(ns, p, children, i) ==
    IF i > Len(children) THEN ns
    ELSE RegisterChildren(
            increment_indegree(set_parent(ns, children[i], p), children[i]),
            p, children, i + 1)

\* mutant of VerdictNode_post_init: the range check excludes its ends
VerdictNode_post_init_Strict(score, g_eval) ==
    IF ~IsNone(score) /\ g_eval THEN "ValueError"
    ELSE IF IsNone(score) /\ ~g_eval THEN "ValueError"
    ELSE IF ~IsNone(score) /\ ~(MinScore < Val(score) /\ Val(score) < MaxScore)
         THEN "ValueError"
    ELSE "ok"

\* VerdictNode.__post_init__: "ok" or the exception raised
VerdictNode_post_init(score, g_eval) ==
    IF ~IsNone(score) /\ g_eval THEN "ValueError"
    ELSE IF IsNone(score) /\ ~g_eval THEN "ValueError"
    ELSE IF ~IsNone(score) /\ ~(MinScore <= Val(score) /\ Val(score) <= MaxScore)
         THEN "ValueError"
    ELSE "ok"

\* TaskNode.__post_init__, the validation loop
TaskNode_post_init(ns, children) ==
    IF \E i \in 1..Len(children) : ns[children[i]].kind = "Verdict"
    THEN "ValueError" ELSE "ok"

\* the per-child checks of BinaryJudgementNode.__post_init__, in list order
RECURSIVE BinaryChildCheck(_, _, _)
BinaryChildCheck(ns, children, i) ==
    IF i > Len(children) THEN "ok"
    ELSE IF ns[children[i]].kind # "Verdict" THEN "TypeError"
    ELSE IF ns[children[i]].verdict.type # "bool" THEN "ValueError"
    ELSE BinaryChildCheck(ns, children, i + 1)

\* verdicts.count(x)
CountLabel(ns, children, l) ==
    Cardinality({i \in 1..Len(children) : ns[children[i]].verdict = l})

\* mutant of BinaryJudgementNode_post_init: the true/false counts are not checked
BinaryJudgementNode_post_init_NoCount(ns, children) ==
    IF Len(children) # 2 THEN "ValueError"
    ELSE BinaryChildCheck(ns, children, 1)

BinaryJudgementNode_post_init(ns, children) ==
    IF Len(children) # 2 THEN "ValueError"
    ELSE IF BinaryChildCheck(ns, children, 1) # "ok"
         THEN BinaryChildCheck(ns, children, 1)
    ELSE IF CountLabel(ns, children, BoolLabel(TRUE)) # 1
            \/ CountLabel(ns, children, BoolLabel(FALSE)) # 1
         THEN "ValueError"
    ELSE "ok"

\* mutant of NonBinaryChildLoop: duplicates are not detected
RECURSIVE NonBinaryChildLoop_NoDuplicateCheck(_, _, _, _)
NonBinaryChildLoop_NoDuplicateCheck(ns, children, i, verdicts_set) ==
    IF i > Len(children) THEN [result |-> "ok", verdicts_set |-> verdicts_set]
    ELSE IF ns[children[i]].kind # "Verdict"
         THEN [result |-> "TypeError", verdicts_set |-> verdicts_set]
    ELSE IF ns[children[i]].verdict.type # "str"
         THEN [result |-> "ValueError", verdicts_set |-> verdicts_set]
    ELSE NonBinaryChildLoop_NoDuplicateCheck(ns, children, i + 1,
                            verdicts_set \cup {ns[children[i]].verdict.val})

\* the loop of NonBinaryJudgementNode.__post_init__: the outcome and the
\* verdicts_set collected
RECURSIVE NonBinaryChildLoop(_, _, _, _)
NonBinaryChildLoop(ns, children, i, verdicts_set) ==
    IF i > Len(children) THEN [result |-> "ok", verdicts_set |-> verdicts_set]
    ELSE IF ns[children[i]].kind # "Verdict"
         THEN [result |-> "TypeError", verdicts_set |-> verdicts_set]
    ELSE IF ns[children[i]].verdict.type # "str"
         THEN [result |-> "ValueError", verdicts_set |-> verdicts_set]
    ELSE IF ns[children[i]].verdict.val \in verdicts_set
         THEN [result |-> "ValueError", verdicts_set |-> verdicts_set]
    ELSE NonBinaryChildLoop(ns, children, i + 1,
                            verdicts_set \cup {ns[children[i]].verdict.val})

NonBinaryJudgementNode_post_init(ns, children) ==
    IF Len(children) = 0
    THEN [result |-> "ValueError", verdicts_set |-> {}]
    ELSE NonBinaryChildLoop(ns, children, 1, {})

(***************************************************************************)
(* The constructor calls a behaviour makes                                 *)
(***************************************************************************)
VerdictCall(verdict, score, g_eval) ==
    [op |-> "Verdict", verdict |-> verdict, score |-> score,
     g_eval |-> g_eval, children |-> <<>>]
ParentCall(op, children) ==
    [op |-> op, verdict |-> NoLabel, score |-> None, g_eval |-> FALSE,
     children |-> children]

\* a pool of nodes of every kind and label type, on which each constructor is
\* then tried with every argument
Pool ==
    << VerdictCall(BoolLabel(TRUE), Some(10), FALSE),
       VerdictCall(BoolLabel(FALSE), Some(0), FALSE),
       VerdictCall(StrLabel("a"), Some(10), FALSE),
       VerdictCall(StrLabel("b"), None, TRUE),
       VerdictCall(StrLabel("c"), Some(0), FALSE),
       ParentCall("Task", <<>>),
       VerdictCall(IntLabel, Some(5), FALSE) >>

ChainScores == {0, 3, 10}

\* Task -> BinaryJudgement -> {Verdict(true, a), Verdict(false, b)}
Chain(a, b) ==
    << VerdictCall(BoolLabel(TRUE), Some(a), FALSE),
       VerdictCall(BoolLabel(FALSE), Some(b), FALSE),
       ParentCall("Binary", <<1, 2>>),
       ParentCall("Task", <<3>>) >>

\* Task -> {BinaryJudgement, BinaryJudgement}, the true VerdictNode shared
Diamond ==
    << VerdictCall(BoolLabel(TRUE), Some(10), FALSE),
       VerdictCall(BoolLabel(FALSE), Some(0), FALSE),
       VerdictCall(BoolLabel(FALSE), None, TRUE),
       ParentCall("Binary", <<1, 2>>),
       ParentCall("Binary", <<3, 1>>),
       ParentCall("Task", <<4, 5>>) >>

\* Task -> {Task, Task} -> BinaryJudgement with two parents
JudgementJoin ==
    << VerdictCall(BoolLabel(TRUE), Some(10), FALSE),
       VerdictCall(BoolLabel(FALSE), Some(0), FALSE),
       ParentCall("Binary", <<1, 2>>),
       ParentCall("Task", <<3>>),
       ParentCall("Task", <<3>>),
       ParentCall("Task", <<4, 5>>) >>

\* a Task that is a child of the root and of the root's other child
UnevenJoin(rootChildren) ==
    << ParentCall("Task", <<>>),
       ParentCall("Task", <<1>>),
       ParentCall("Task", rootChildren) >>

\* a Task listed twice by its parent
TwiceListed ==
    << ParentCall("Task", <<>>),
       ParentCall("Task", <<1, 1>>) >>

\* Task -> NonBinaryJudgement -> three VerdictNodes
NonBinaryTree ==
    << VerdictCall(StrLabel("a"), Some(10), FALSE),
       VerdictCall(StrLabel("b"), None, TRUE),
       VerdictCall(StrLabel("c"), Some(0), FALSE),
       ParentCall("NonBinary", <<1, 2, 3>>),
       ParentCall("Task", <<4>>) >>

Scripts ==
    {Chain(a, b) : a \in ChainScores, b \in ChainScores}
    \cup {Diamond, JudgementJoin, TwiceListed, NonBinaryTree, Pool,
          UnevenJoin(<<2, 1>>), UnevenJoin(<<1, 2>>)}

Labels ==
    {BoolLabel(TRUE), BoolLabel(FALSE), StrLabel("a"), StrLabel("b"),
     StrLabel("c"), IntLabel}
ScoreArgs == {None} \cup {Some(k) : k \in -1..MaxScoreArg}
ChildLists == UNION {[1..k -> NodeIds] : k \in 0..MaxChildren}

\* the call continues one of the scripts, or is any call on the pool
Allowed(call) ==
    \/ \E p \in Scripts :
          /\ Len(p) > Len(calls)
          /\ SubSeq(p, 1, Len(calls)) = calls
          /\ p[Len(calls) + 1] = call
    \/ calls = Pool

Raised(call, result) ==
    /\ ctor' = [call |-> call, result |-> result]
    /\ phase' = "rejected"
    /\ UNCHANGED <<nodes, calls>>

Constructed(call, ns) ==
    /\ ctor' = [call |-> call, result |-> "ok"]
    /\ nodes' = ns
    /\ calls' = Append(calls, call)
    /\ phase' = "build"

\* VerdictNode(verdict, score, g_eval)
NewVerdictNode(verdict, score, g_eval) ==
    LET call == VerdictCall(verdict, score, g_eval)
        result == VerdictNode_post_init(score, g_eval)
    IN  /\ phase = "build"
        /\ Allowed(call)
        /\ IF result = "ok"
           THEN Constructed(call,
                    Append(nodes, NewNode("Verdict", verdict, score, g_eval, <<>>)))
           ELSE Raised(call, result)
        /\ UNCHANGED runVars

\* TaskNode(children)
NewTaskNode(children) ==
    LET call == ParentCall("Task", children)
        result == TaskNode_post_init(nodes, children)
        self == Len(nodes) + 1
    IN  /\ phase = "build"
        /\ Allowed(call)
        /\ IF result = "ok"
           THEN Constructed(call,
                    RegisterChildren(
                        Append(nodes, NewNode("Task", NoLabel, None, FALSE, children)),
                        self, children, 1))
           ELSE Raised(call, result)
        /\ UNCHANGED runVars

\* BinaryJudgementNode(children)
NewBinaryJudgementNode(children) ==
    LET call == ParentCall("Binary", children)
        result == BinaryJudgementNode_post_init(nodes, children)
        self == Len(nodes) + 1
    IN  /\ phase = "build"
        /\ Allowed(call)
        /\ IF result = "ok"
           THEN Constructed(call,
                    RegisterChildren(
                        Append(nodes, NewNode("Binary", NoLabel, None, FALSE, children)),
                        self, children, 1))
           ELSE Raised(call, result)
        /\ UNCHANGED runVars

\* NonBinaryJudgementNode(children)
NewNonBinaryJudgementNode(children) ==
    LET call == ParentCall("NonBinary", children)
        r == NonBinaryJudgementNode_post_init(nodes, children)
        self == Len(nodes) + 1
        fresh == [NewNode("NonBinary", NoLabel, None, FALSE, children)
                     EXCEPT !._verdict_options = r.verdicts_set]
    IN  /\ phase = "build"
        /\ Allowed(call)
        /\ IF r.result = "ok"
           THEN Constructed(call,
                    RegisterChildren(Append(nodes, fresh), self, children, 1))
           ELSE Raised(call, r.result)
        /\ UNCHANGED runVars

(***************************************************************************)
(* The judge stub and the start of a pass                                  *)
(***************************************************************************)
\* a text produced by the judge for node n
Text(n, what) == [by |-> n, what |-> what]
NoText == Text(0, "")

\* the edges parent -> child declared by the constructor calls
InEdges(n) ==
    UNION {{<<p, i>> : i \in {j \in 1..Len(nodes[p].children) :
                                  nodes[p].children[j] = n}} : p \in NodeIds}
Parents(n) == {e[1] : e \in InEdges(n)}
Children(p) == {nodes[p].children[i] : i \in 1..Len(nodes[p].children)}

RECURSIVE ReachableFrom(_)
ReachableFrom(S) ==
    LET next == S \cup UNION {Children(p) : p \in S}
    IN  IF next = S THEN S ELSE ReachableFrom(next)

\* nodes no constructor registered as a child
Sources == {n \in NodeIds : IsNone(nodes[n]._indegree)}

\* the graph of a root is the nodes reachable from it; a pass is started on a
\* graph that has the root as its only source: no node of the graph is also
\* a child of a node outside it
Graph(root) == ReachableFrom({root})
Roots == {r \in Sources : \A n \in Graph(r) : Parents(n) \subseteq Graph(r)}

IsJudgement(n) == nodes[n].kind \in {"Binary", "NonBinary"}

\* the score a nested GEval produces
GEvalScores == {TrueDiv(4, ScoreDivisor)}

NoAnswer == [verdict |-> NoLabel, score |-> TrueDiv(0, ScoreDivisor)]

\* the answers the judge (or the nested GEval) may give for node n, G being
\* the graph of the root: a verdict honouring the schema for a judgement
\* node, a score for a GEval VerdictNode; every text is fixed per node
AnswersFor(n, G) ==
    CASE n \notin G -> {NoAnswer}
      [] nodes[n].kind = "Binary" ->
            {[verdict |-> BoolLabel(b), score |-> TrueDiv(0, ScoreDivisor)] : b \in BOOLEAN}
      [] nodes[n].kind = "NonBinary" ->
            {[verdict |-> StrLabel(o), score |-> TrueDiv(0, ScoreDivisor)] :
                 o \in nodes[n]._verdict_options}
      [] nodes[n].kind = "Verdict" /\ nodes[n].g_eval ->
            {[verdict |-> NoLabel, score |-> sc] : sc \in GEvalScores}
      [] OTHER -> {NoAnswer}

\* the stubs for nodes 1..k: one answer per node
RECURSIVE Stubs(_, _)
Stubs(k, G) ==
    IF k = 0 THEN {<<>>}
    ELSE {Append(st, a) : st \in Stubs(k - 1, G), a \in AnswersFor(k, G)}

\* the judge of the metric: a native model returns (result, cost) and takes a
\* schema; a generic model either takes the schema too or raises TypeError
\* when it is given one
Judges ==
    {[using_native_model |-> TRUE, rejects_schema |-> FALSE],
     [using_native_model |-> FALSE, rejects_schema |-> FALSE],
     [using_native_model |-> FALSE, rejects_schema |-> TRUE]}

\* mutant of SchemaFallback: the call without a schema is made whenever the
\* judge is generic
SchemaFallback_AnyGeneric(n, judge) ==
    /\ ~judge.using_native_model
    /\ IsJudgement(n) \/ (nodes[n].kind = "Verdict" /\ ~nodes[n].g_eval)

\* the judge is called with a schema by the judgement nodes and by the reason
\* generation of a fixed-score VerdictNode; a generic judge that rejects it is
\* called once more without
SchemaFallback(n, judge) ==
    /\ ~judge.using_native_model
    /\ judge.rejects_schema
    /\ IsJudgement(n) \/ (nodes[n].kind = "Verdict" /\ ~nodes[n].g_eval)

\* at most one failure per pass: at node n either the call of the judge (or
\* of the nested GEval) raises an error other than the schema's TypeError,
\* or, after a schema fallback, the extraction from the free text raises;
\* the failures are tried in the passes started at depth 0
NoFault == [node |-> 0, at |-> ""]
Faults(G, depth, include_reason, judge) ==
    {NoFault}
    \cup {[node |-> n, at |-> "call"] :
             n \in {k \in G : /\ depth = 0
                              /\ \/ nodes[k].kind # "Verdict"
                                 \/ nodes[k].g_eval
                                 \/ include_reason}}
    \cup {[node |-> n, at |-> "extract"] :
             n \in {k \in G : /\ depth = 0
                              /\ SchemaFallback(k, judge)
                              /\ IsJudgement(k) \/ include_reason}}

\* passes counts the passes started on each of the two instances
NoPass ==
    [root |-> 0, depth |-> 0, stub |-> <<>>, include_reason |-> FALSE,
     using_native_model |-> FALSE, rejects_schema |-> FALSE, fault |-> NoFault,
     passes |-> [seq |-> 0, par |-> 0]]

\* events is the history of the judge invocations and of the log entries
\* appended, each with the node and the path of child indices from the root
\* to the call that produced it; score_by and reason_by record the
\* VerdictNode that last assigned metric.score and metric.reason; failure
\* records the node at which the judge failed, with the log, score and
\* reason of that moment
FreshMetric ==
    [_verbose_steps |-> <<>>, score |-> None, reason |-> None,
     evaluation_cost |-> 0, score_by |-> None, reason_by |-> None,
     events |-> <<>>, failure |-> None]

\* the transient fields of node n of a freshly built instance; visits and
\* entered count the calls of its execute method and those that passed the
\* join check
FreshInstance(n) ==
    [_indegree |-> nodes[n]._indegree, _output |-> None, _verdict |-> None,
     visits |-> 0, entered |-> 0]

Frame(n, depth) ==
    [node |-> n, depth |-> depth, pc |-> "enter", i |-> 1, text |-> <<>>]

Init ==
    /\ nodes = <<>>
    /\ calls = <<>>
    /\ ctor = [call |-> ParentCall("none", <<>>), result |-> "none"]
    /\ phase = "build"
    /\ pass = NoPass
    /\ inst = [s \in Strategies |-> <<>>]
    /\ metric = [s \in Strategies |-> FreshMetric]
    /\ stack = <<>>
    /\ seqStatus = "idle"
    /\ tasks = <<>>
    /\ ready = <<>>
    /\ parStatus = "idle"

\* root._execute(metric, test_case, depth) on the first instance
StartPass(root, depth, stub, include_reason, judge, fault) ==
    /\ phase = "build"
    /\ phase' = "run"
    /\ pass' = [root |-> root, depth |-> depth, stub |-> stub,
                include_reason |-> include_reason,
                using_native_model |-> judge.using_native_model,
                rejects_schema |-> judge.rejects_schema,
                fault |-> fault,
                passes |-> [seq |-> 1, par |-> 0]]
    /\ inst' = [s \in Strategies |-> [n \in NodeIds |-> FreshInstance(n)]]
    /\ stack' = <<Frame(root, depth)>>
    /\ seqStatus' = "running"
    /\ UNCHANGED <<buildVars, metric, parVars>>

(***************************************************************************)
(* What the two traversals share                                           *)
(***************************************************************************)
\* decrement_indegree(self) at the head of every execute method
Arrive(s, n) ==
    [inst[s][n] EXCEPT !._indegree = decrement_indegree(@),
                       !.visits = @ + 1]

\* mutant of JoinOpen: only an arrival after the last one returns
JoinOpen_NotNegative(rec) == Val(rec._indegree) >= 0

\* if self._indegree != 0: return
JoinOpen(rec) == Val(rec._indegree) = 0

\* the (output_label, _output) pairs of the TaskNode parents, in list order
ParentOutputs(s, ps) ==
    LET IsTask(p) == nodes[p].kind = "Task"
        taskParents == SelectSeq(ps, IsTask)
    IN  [i \in 1..Len(taskParents) |->
            [output_label |-> taskParents[i],
             _output |-> inst[s][taskParents[i]]._output]]

\* mutant of GateShut: only a BinaryJudgementNode parent is compared with
GateShut_BinaryOnly(s, v) ==
    /\ ~IsNone(nodes[v]._parent)
    /\ nodes[Val(nodes[v]._parent)].kind = "Binary"
    /\ Val(inst[s][Val(nodes[v]._parent)]._verdict).verdict # nodes[v].verdict

\* the verdict gate of VerdictNode: the label differs from the verdict of the
\* judgement node in the _parent slot
GateShut(s, v) ==
    /\ ~IsNone(nodes[v]._parent)
    /\ IsJudgement(Val(nodes[v]._parent))
    /\ Val(inst[s][Val(nodes[v]._parent)]._verdict).verdict # nodes[v].verdict

construct_node_verbose_log(s, n, rec, depth) ==
    CASE IsJudgement(n) ->
            [node |-> n,
             kind |-> IF nodes[n].kind = "Binary" THEN "BinaryJudgementNode"
                      ELSE "NonBinaryJudgementNode",
             depth |-> depth, verdict |-> Val(rec._verdict).verdict,
             reason |-> Val(rec._verdict).reason, output |-> NoText,
             type |-> ""]
      [] nodes[n].kind = "Task" ->
            [node |-> n, kind |-> "TaskNode", depth |-> depth,
             verdict |-> NoLabel, reason |-> NoText,
             output |-> Val(rec._output), type |-> ""]
      [] nodes[n].kind = "Verdict" ->
            [node |-> n, kind |-> "VerdictNode", depth |-> depth,
             verdict |-> nodes[n].verdict, reason |-> NoText, output |-> NoText,
             type |-> IF nodes[n].g_eval THEN "GEval" ELSE "Deterministic"]

\* the judge's result stored on a TaskNode or a judgement node
StoreResult(n, rec) ==
    IF nodes[n].kind = "Task"
    THEN [rec EXCEPT !._output = Some(Text(n, "output"))]
    ELSE [rec EXCEPT !._verdict =
             Some([verdict |-> pass.stub[n].verdict, reason |-> Text(n, "reason")])]

\* metric.evaluation_cost += cost, for a native model
Charge(m) ==
    IF pass.using_native_model
    THEN [m EXCEPT !.evaluation_cost = @ + 1] ELSE m

\* metric.model.generate(prompt[, schema]) is called for node n; kind is
\* "judge", or "measure" for the measure of a nested GEval
Invoked(m, kind, n, schema, path) ==
    [m EXCEPT !.events =
        Append(@, [kind |-> kind, node |-> n, schema |-> schema, path |-> path])]

\* mutant of Logged: the entry is put in front of the log
Logged_Prepended(m, entry, path) ==
    [m EXCEPT !._verbose_steps = <<entry>> \o @,
              !.events = <<[kind |-> "log", node |-> entry.node,
                            schema |-> FALSE, path |-> path]>> \o @]

\* metric._verbose_steps.append(entry)
Logged(m, entry, path) ==
    [m EXCEPT !._verbose_steps = Append(@, entry),
              !.events = Append(@, [kind |-> "log", node |-> entry.node,
                                    schema |-> FALSE, path |-> path])]

\* mutant of FixedScore: the score is not divided
FixedScore_Undivided(m, v) ==
    [m EXCEPT !.score = Some(TrueDiv(Val(nodes[v].score), 1)),
              !.score_by = Some(v)]

\* metric.score = self.score / 10
FixedScore(m, v) ==
    [m EXCEPT !.score = Some(TrueDiv(Val(nodes[v].score), ScoreDivisor)),
              !.score_by = Some(v)]

\* after copied_g_eval.measure: metric.score, and metric.reason if asked
Measured(m, v) ==
    [m EXCEPT !.score = Some(pass.stub[v].score),
              !.score_by = Some(v),
              !.reason = IF pass.include_reason
                         THEN Some(Text(v, "g_eval reason")) ELSE @,
              !.reason_by = IF pass.include_reason THEN Some(v) ELSE @]

\* metric.reason = the reason returned by the judge
Reasoned(m, v) ==
    [Charge(m) EXCEPT !.reason = Some(Text(v, "reason")), !.reason_by = Some(v)]

\* the stubbed failure strikes this step of node n
FaultAt(n, at) == pass.fault = [node |-> n, at |-> at]

\* the judge (or the extraction) raises in the body of node n
Failed(m, n) ==
    [m EXCEPT !.failure =
        Some([node |-> n, log |-> m._verbose_steps, score |-> m.score,
              reason |-> m.reason, score_by |-> m.score_by,
              reason_by |-> m.reason_by])]

(***************************************************************************)
(* The sequential traversal: _execute                                      *)
(***************************************************************************)
Top == stack[Len(stack)]

\* the child indices from the root's call to the running call
SeqPath == [k \in 1..(Len(stack) - 1) |-> stack[k].i - 1]

\* the running call returns to its caller
Return ==
    /\ stack' = SubSeq(stack, 1, Len(stack) - 1)
    /\ seqStatus' = IF Len(stack) = 1 THEN "returned" ELSE "running"

\* an exception nothing catches unwinds the whole stack
Raise ==
    /\ stack' = <<>>
    /\ seqStatus' = "raised"

\* the running call blocks in the judge (or the nested GEval)
Block(pc, text) ==
    /\ stack' = [stack EXCEPT ![Len(stack)].pc = pc, ![Len(stack)].text = text]
    /\ UNCHANGED seqStatus

\* TaskNode._execute up to the call of the judge
TaskNode_execute ==
    /\ seqStatus = "running"
    /\ Top.pc = "enter"
    /\ nodes[Top.node].kind = "Task"
    /\ LET n == Top.node
           rec == Arrive("seq", n)
       IN  IF ~JoinOpen(rec)
           THEN /\ inst' = [inst EXCEPT !["seq"][n] = rec]
                /\ Return
                /\ UNCHANGED metric
           ELSE /\ inst' = [inst EXCEPT !["seq"][n] = [rec EXCEPT !.entered = @ + 1]]
                /\ metric' = [metric EXCEPT !["seq"] =
                                 Invoked(@, "judge", n, FALSE, SeqPath)]
                /\ Block("judge",
                         IF IsNone(nodes[n]._parents) THEN <<>>
                         ELSE ParentOutputs("seq", Val(nodes[n]._parents)))
    /\ UNCHANGED <<buildVars, phase, pass, parVars>>

\* BinaryJudgementNode._execute and NonBinaryJudgementNode._execute up to the
\* call of the judge; iterating over _parents = None raises TypeError
JudgementNode_execute ==
    /\ seqStatus = "running"
    /\ Top.pc = "enter"
    /\ IsJudgement(Top.node)
    /\ LET n == Top.node
           rec == Arrive("seq", n)
       IN  IF ~JoinOpen(rec)
           THEN /\ inst' = [inst EXCEPT !["seq"][n] = rec]
                /\ Return
                /\ UNCHANGED metric
           ELSE /\ inst' = [inst EXCEPT !["seq"][n] = [rec EXCEPT !.entered = @ + 1]]
                /\ IF IsNone(nodes[n]._parents)
                   THEN Raise /\ UNCHANGED metric
                   ELSE /\ metric' = [metric EXCEPT !["seq"] =
                                         Invoked(@, "judge", n, TRUE, SeqPath)]
                        /\ Block("judge", ParentOutputs("seq", Val(nodes[n]._parents)))
    /\ UNCHANGED <<buildVars, phase, pass, parVars>>

\* the result of the judge is stored on the running TaskNode or judgement
\* node, the log entry is appended and the loop over the children begins
SeqBody ==
    LET n == Top.node
        rec == StoreResult(n, inst["seq"][n])
    IN  /\ inst' = [inst EXCEPT !["seq"][n] = rec]
        /\ metric' = [metric EXCEPT !["seq"] =
               Logged(Charge(@), construct_node_verbose_log("seq", n, rec, Top.depth),
                      SeqPath)]
        /\ Block("children", Top.text)

\* the call of the judge by a TaskNode or a judgement node ends: it raises,
\* or a generic judge rejects the schema and is called again without, or it
\* returns the result
SeqJudgeReturns ==
    /\ seqStatus = "running"
    /\ Top.pc = "judge"
    /\ IF FaultAt(Top.node, "call")
       THEN /\ metric' = [metric EXCEPT !["seq"] = Failed(@, Top.node)]
            /\ Raise
            /\ UNCHANGED inst
       ELSE IF SchemaFallback(Top.node, pass)
       THEN /\ metric' = [metric EXCEPT !["seq"] =
                             Invoked(@, "judge", Top.node, FALSE, SeqPath)]
            /\ Block("retry", Top.text)
            /\ UNCHANGED inst
       ELSE SeqBody
    /\ UNCHANGED <<buildVars, phase, pass, parVars>>

\* the call without a schema returns free text: trimAndLoadJson and the
\* schema's constructor raise, or give the verdict (or the reason)
SeqRetryReturns ==
    /\ seqStatus = "running"
    /\ Top.pc = "retry"
    /\ IF FaultAt(Top.node, "extract")
       THEN /\ metric' = [metric EXCEPT !["seq"] = Failed(@, Top.node)]
            /\ Raise
            /\ UNCHANGED inst
       ELSE IF nodes[Top.node].kind = "Verdict"
       THEN /\ metric' = [metric EXCEPT !["seq"] = Reasoned(@, Top.node)]
            /\ Return
            /\ UNCHANGED inst
       ELSE SeqBody
    /\ UNCHANGED <<buildVars, phase, pass, parVars>>

\* mutant of SeqVisitChild: the children are visited last to first
SeqVisitChild_Reversed ==
    /\ seqStatus = "running"
    /\ Top.pc = "children"
    /\ Top.i <= Len(nodes[Top.node].children)
    /\ stack' = Append([stack EXCEPT ![Len(stack)].i = @ + 1],
                       Frame(nodes[Top.node].children[
                                 Len(nodes[Top.node].children) + 1 - Top.i],
                             Top.depth + 1))
    /\ UNCHANGED <<buildVars, phase, pass, inst, metric, seqStatus, parVars>>

\* for children in self.children: children._execute(..., depth + 1)
SeqVisitChild ==
    /\ seqStatus = "running"
    /\ Top.pc = "children"
    /\ Top.i <= Len(nodes[Top.node].children)
    /\ stack' = Append([stack EXCEPT ![Len(stack)].i = @ + 1],
                       Frame(nodes[Top.node].children[Top.i], Top.depth + 1))
    /\ UNCHANGED <<buildVars, phase, pass, inst, metric, seqStatus, parVars>>

SeqChildrenDone ==
    /\ seqStatus = "running"
    /\ Top.pc = "children"
    /\ Top.i > Len(nodes[Top.node].children)
    /\ Return
    /\ UNCHANGED <<buildVars, phase, pass, inst, metric, parVars>>

\* VerdictNode._execute up to the call of the nested GEval or of the judge
VerdictNode_execute ==
    /\ seqStatus = "running"
    /\ Top.pc = "enter"
    /\ nodes[Top.node].kind = "Verdict"
    /\ LET v == Top.node
           rec == Arrive("seq", v)
           entry == construct_node_verbose_log("seq", v, rec, Top.depth)
       IN  IF ~JoinOpen(rec)
           THEN /\ inst' = [inst EXCEPT !["seq"][v] = rec]
                /\ Return
                /\ UNCHANGED metric
           ELSE /\ inst' = [inst EXCEPT !["seq"][v] = [rec EXCEPT !.entered = @ + 1]]
                /\ IF GateShut("seq", v)
                   THEN Return /\ UNCHANGED metric
                   ELSE IF nodes[v].g_eval
                   THEN /\ metric' = [metric EXCEPT !["seq"] =
                               Invoked(Logged(@, entry, SeqPath),
                                       "measure", v, FALSE, SeqPath)]
                        /\ Block("measure", <<>>)
                   ELSE IF pass.include_reason
                   THEN /\ metric' = [metric EXCEPT !["seq"] =
                               Invoked(FixedScore(Logged(@, entry, SeqPath), v),
                                       "judge", v, TRUE, SeqPath)]
                        /\ Block("reason", <<>>)
                   ELSE /\ metric' = [metric EXCEPT !["seq"] =
                               FixedScore(Logged(@, entry, SeqPath), v)]
                        /\ Return
    /\ UNCHANGED <<buildVars, phase, pass, parVars>>

\* copied_g_eval.measure raises or returns
SeqMeasureReturns ==
    /\ seqStatus = "running"
    /\ Top.pc = "measure"
    /\ IF FaultAt(Top.node, "call")
       THEN /\ metric' = [metric EXCEPT !["seq"] = Failed(@, Top.node)]
            /\ Raise
       ELSE /\ metric' = [metric EXCEPT !["seq"] = Measured(@, Top.node)]
            /\ Return
    /\ UNCHANGED <<buildVars, phase, pass, inst, parVars>>

\* the call of the judge by _generate_reason ends: it raises, or a generic
\* judge rejects the schema and is called again without, or it returns
SeqReasonReturns ==
    /\ seqStatus = "running"
    /\ Top.pc = "reason"
    /\ IF FaultAt(Top.node, "call")
       THEN /\ metric' = [metric EXCEPT !["seq"] = Failed(@, Top.node)]
            /\ Raise
       ELSE IF SchemaFallback(Top.node, pass)
       THEN /\ metric' = [metric EXCEPT !["seq"] =
                             Invoked(@, "judge", Top.node, FALSE, SeqPath)]
            /\ Block("retry", Top.text)
       ELSE /\ metric' = [metric EXCEPT !["seq"] = Reasoned(@, Top.node)]
            /\ Return
    /\ UNCHANGED <<buildVars, phase, pass, inst, parVars>>

\* root._execute(metric, test_case, depth) once more on the first instance,
\* whose transient fields are as the passes before left them
RestartSequentialPass ==
    /\ phase = "run"
    /\ seqStatus \in {"returned", "raised"}
    /\ parStatus \in {"returned", "raised"}
    /\ pass.passes["seq"] < MaxPasses
    /\ pass' = [pass EXCEPT !.passes["seq"] = @ + 1]
    /\ stack' = <<Frame(pass.root, pass.depth)>>
    /\ seqStatus' = "running"
    /\ UNCHANGED <<buildVars, phase, inst, metric, parVars>>

(***************************************************************************)
(* The parallel traversal: _a_execute under asyncio                        *)
(*                                                                         *)
(* A task runs without interruption from one await to the next.  The loop  *)
(* runs the tasks of its ready queue in FIFO order; gather appends one     *)
(* task per child, in list order.  An awaited judge either answers without *)
(* suspending (the task keeps the head of the queue) or suspends the task, *)
(* which re-enters the queue at the tail when the answer arrives.  gather  *)
(* is called without return_exceptions: it returns when every child task   *)
(* is done, and raises the first exception of a child as soon as that      *)
(* child has failed, leaving the other children running.  The pass is over *)
(* when the root coroutine has returned or raised.                         *)
(***************************************************************************)
Task(n, depth, parent, path) ==
    [node |-> n, depth |-> depth, pc |-> "start", on |-> "", parent |-> parent,
     text |-> <<>>, path |-> path]

Running == Head(ready)

ChildTasks(t) == {c \in 1..Len(tasks) : tasks[c].parent = t}

\* await root._a_execute(metric, test_case, depth) on the second instance;
\* again on the same instance once the sequential passes are over
StartParallelPass ==
    /\ phase = "run"
    /\ seqStatus \in {"returned", "raised"}
    /\ parStatus # "running"
    /\ pass.passes["par"] < MaxPasses
    /\ pass.passes["par"] > 0 => pass.passes["seq"] = MaxPasses
    /\ pass' = [pass EXCEPT !.passes["par"] = @ + 1]
    /\ tasks' = <<Task(pass.root, pass.depth, 0, <<>>)>>
    /\ ready' = <<1>>
    /\ parStatus' = "running"
    /\ UNCHANGED <<buildVars, phase, inst, metric, seqVars>>

\* the running coroutine returns
Finish(t) ==
    /\ tasks' = [tasks EXCEPT ![t].pc = "done"]
    /\ ready' = Tail(ready)
    /\ parStatus' = IF t = 1 THEN "returned" ELSE parStatus

\* the running coroutine raises
Fail(t) ==
    /\ tasks' = [tasks EXCEPT ![t].pc = "failed"]
    /\ ready' = Tail(ready)
    /\ parStatus' = IF t = 1 THEN "raised" ELSE parStatus

\* the running coroutine awaits the judge (or the nested GEval)
Await(t, on, text) ==
    /\ \/ /\ tasks' = [tasks EXCEPT ![t].pc = "resume", ![t].on = on,
                                    ![t].text = text]
          /\ ready' = ready
       \/ /\ tasks' = [tasks EXCEPT ![t].pc = "await", ![t].on = on,
                                    ![t].text = text]
          /\ ready' = Tail(ready)
    /\ UNCHANGED parStatus

\* TaskNode._a_execute up to the first await
TaskNode_a_execute ==
    /\ parStatus = "running"
    /\ ready # <<>>
    /\ tasks[Running].pc = "start"
    /\ nodes[tasks[Running].node].kind = "Task"
    /\ LET t == Running
           n == tasks[t].node
           rec == Arrive("par", n)
       IN  IF ~JoinOpen(rec)
           THEN /\ inst' = [inst EXCEPT !["par"][n] = rec]
                /\ Finish(t)
                /\ UNCHANGED metric
           ELSE /\ inst' = [inst EXCEPT !["par"][n] = [rec EXCEPT !.entered = @ + 1]]
                /\ metric' = [metric EXCEPT !["par"] =
                                 Invoked(@, "judge", n, FALSE, tasks[t].path)]
                /\ Await(t, "judge",
                         IF IsNone(nodes[n]._parents) THEN <<>>
                         ELSE ParentOutputs("par", Val(nodes[n]._parents)))
    /\ UNCHANGED <<buildVars, phase, pass, seqVars>>

\* BinaryJudgementNode._a_execute and NonBinaryJudgementNode._a_execute up to
\* the first await
JudgementNode_a_execute ==
    /\ parStatus = "running"
    /\ ready # <<>>
    /\ tasks[Running].pc = "start"
    /\ IsJudgement(tasks[Running].node)
    /\ LET t == Running
           n == tasks[t].node
           rec == Arrive("par", n)
       IN  IF ~JoinOpen(rec)
           THEN /\ inst' = [inst EXCEPT !["par"][n] = rec]
                /\ Finish(t)
                /\ UNCHANGED metric
           ELSE /\ inst' = [inst EXCEPT !["par"][n] = [rec EXCEPT !.entered = @ + 1]]
                /\ IF IsNone(nodes[n]._parents)
                   THEN Fail(t) /\ UNCHANGED metric
                   ELSE /\ metric' = [metric EXCEPT !["par"] =
                                         Invoked(@, "judge", n, TRUE, tasks[t].path)]
                        /\ Await(t, "judge", ParentOutputs("par", Val(nodes[n]._parents)))
    /\ UNCHANGED <<buildVars, phase, pass, seqVars>>

\* the answer of the judge (or of the nested GEval), or its failure, arrives
\* for a suspended task
AnswerArrives(t) ==
    /\ parStatus = "running"
    /\ tasks[t].pc = "await"
    /\ tasks' = [tasks EXCEPT ![t].pc = "resume"]
    /\ ready' = Append(ready, t)
    /\ UNCHANGED <<buildVars, phase, pass, inst, metric, seqVars, parStatus>>

\* the result of the judge is stored on the TaskNode or judgement node of
\* task t, the log entry is appended and the children are gathered
ParBody(t) ==
    LET n == tasks[t].node
        rec == StoreResult(n, inst["par"][n])
        children == nodes[n].children
        spawned == [i \in 1..Len(children) |->
                       Task(children[i], tasks[t].depth + 1, t,
                            Append(tasks[t].path, i))]
    IN  /\ inst' = [inst EXCEPT !["par"][n] = rec]
        /\ metric' = [metric EXCEPT !["par"] =
               Logged(Charge(@),
                      construct_node_verbose_log("par", n, rec, tasks[t].depth),
                      tasks[t].path)]
        /\ IF children = <<>>
           THEN Finish(t)
           ELSE /\ tasks' = [tasks EXCEPT ![t].pc = "gather"] \o spawned
                /\ ready' = Tail(ready) \o
                       [i \in 1..Len(children) |-> Len(tasks) + i]
                /\ UNCHANGED parStatus

\* a TaskNode or a judgement node resumes after awaiting the judge: the call
\* has raised, or a generic judge has rejected the schema and is awaited
\* again without, or the result is there
ParJudgeResumes ==
    /\ parStatus = "running"
    /\ ready # <<>>
    /\ tasks[Running].pc = "resume"
    /\ tasks[Running].on = "judge"
    /\ LET t == Running
           n == tasks[t].node
       IN  IF FaultAt(n, "call")
           THEN /\ metric' = [metric EXCEPT !["par"] = Failed(@, n)]
                /\ Fail(t)
                /\ UNCHANGED inst
           ELSE IF SchemaFallback(n, pass)
           THEN /\ metric' = [metric EXCEPT !["par"] =
                                 Invoked(@, "judge", n, FALSE, tasks[t].path)]
                /\ Await(t, "retry", tasks[t].text)
                /\ UNCHANGED inst
           ELSE ParBody(t)
    /\ UNCHANGED <<buildVars, phase, pass, seqVars>>

\* a node resumes after awaiting the judge called without a schema:
\* trimAndLoadJson and the schema's constructor raise, or give the verdict
\* (or the reason)
ParRetryResumes ==
    /\ parStatus = "running"
    /\ ready # <<>>
    /\ tasks[Running].pc = "resume"
    /\ tasks[Running].on = "retry"
    /\ LET t == Running
           n == tasks[t].node
       IN  IF FaultAt(n, "extract")
           THEN /\ metric' = [metric EXCEPT !["par"] = Failed(@, n)]
                /\ Fail(t)
                /\ UNCHANGED inst
           ELSE IF nodes[n].kind = "Verdict"
           THEN /\ metric' = [metric EXCEPT !["par"] = Reasoned(@, n)]
                /\ Finish(t)
                /\ UNCHANGED inst
           ELSE ParBody(t)
    /\ UNCHANGED <<buildVars, phase, pass, seqVars>>

\* mutant of GatherReturns: the first child task that is done ends the wait
GatherReturns_FirstCompleted(t) ==
    /\ parStatus = "running"
    /\ tasks[t].pc = "gather"
    /\ \E c \in ChildTasks(t) : tasks[c].pc = "done"
    /\ tasks' = [tasks EXCEPT ![t].pc = "done"]
    /\ parStatus' = IF t = 1 THEN "returned" ELSE parStatus
    /\ UNCHANGED <<buildVars, phase, pass, inst, metric, seqVars, ready>>

\* await asyncio.gather(...) returns once every child task is done
\* mutant of GatherReturns: gather waits until every child has logged
GatherReturns_AllLogged(t) ==
    /\ parStatus = "running"
    /\ tasks[t].pc = "gather"
    /\ \A c \in ChildTasks(t) :
          /\ tasks[c].pc = "done"
          /\ \E i \in 1..Len(metric["par"]._verbose_steps) :
                metric["par"]._verbose_steps[i].node = tasks[c].node
    /\ tasks' = [tasks EXCEPT ![t].pc = "done"]
    /\ parStatus' = IF t = 1 THEN "returned" ELSE parStatus
    /\ UNCHANGED <<buildVars, phase, pass, inst, metric, seqVars, ready>>

GatherReturns(t) ==
    /\ parStatus = "running"
    /\ tasks[t].pc = "gather"
    /\ \A c \in ChildTasks(t) : tasks[c].pc = "done"
    /\ tasks' = [tasks EXCEPT ![t].pc = "done"]
    /\ parStatus' = IF t = 1 THEN "returned" ELSE parStatus
    /\ UNCHANGED <<buildVars, phase, pass, inst, metric, seqVars, ready>>

\* await asyncio.gather(...) raises the exception of a child task that has
\* failed; the other child tasks are neither awaited nor cancelled.  The
\* child tasks were queued together, ahead of the parent's wake-up, so each
\* of them has run to its first await by then
GatherRaises(t) ==
    /\ parStatus = "running"
    /\ tasks[t].pc = "gather"
    /\ \E c \in ChildTasks(t) : tasks[c].pc = "failed"
    /\ \A c \in ChildTasks(t) : tasks[c].pc # "start"
    /\ tasks' = [tasks EXCEPT ![t].pc = "failed"]
    /\ parStatus' = IF t = 1 THEN "raised" ELSE parStatus
    /\ UNCHANGED <<buildVars, phase, pass, inst, metric, seqVars, ready>>

\* VerdictNode._a_execute up to the first await
VerdictNode_a_execute ==
    /\ parStatus = "running"
    /\ ready # <<>>
    /\ tasks[Running].pc = "start"
    /\ nodes[tasks[Running].node].kind = "Verdict"
    /\ LET t == Running
           v == tasks[t].node
           rec == Arrive("par", v)
           entry == construct_node_verbose_log("par", v, rec, tasks[t].depth)
           path == tasks[t].path
       IN  IF ~JoinOpen(rec)
           THEN /\ inst' = [inst EXCEPT !["par"][v] = rec]
                /\ Finish(t)
                /\ UNCHANGED metric
           ELSE /\ inst' = [inst EXCEPT !["par"][v] = [rec EXCEPT !.entered = @ + 1]]
                /\ IF GateShut("par", v)
                   THEN Finish(t) /\ UNCHANGED metric
                   ELSE IF nodes[v].g_eval
                   THEN /\ metric' = [metric EXCEPT !["par"] =
                               Invoked(Logged(@, entry, path),
                                       "measure", v, FALSE, path)]
                        /\ Await(t, "measure", <<>>)
                   ELSE IF pass.include_reason
                   THEN /\ metric' = [metric EXCEPT !["par"] =
                               Invoked(FixedScore(Logged(@, entry, path), v),
                                       "judge", v, TRUE, path)]
                        /\ Await(t, "reason", <<>>)
                   ELSE /\ metric' = [metric EXCEPT !["par"] =
                               FixedScore(Logged(@, entry, path), v)]
                        /\ Finish(t)
    /\ UNCHANGED <<buildVars, phase, pass, seqVars>>

\* a VerdictNode resumes after await copied_g_eval.a_measure
ParMeasureResumes ==
    /\ parStatus = "running"
    /\ ready # <<>>
    /\ tasks[Running].pc = "resume"
    /\ tasks[Running].on = "measure"
    /\ IF FaultAt(tasks[Running].node, "call")
       THEN /\ metric' = [metric EXCEPT !["par"] = Failed(@, tasks[Running].node)]
            /\ Fail(Running)
       ELSE /\ metric' = [metric EXCEPT !["par"] = Measured(@, tasks[Running].node)]
            /\ Finish(Running)
    /\ UNCHANGED <<buildVars, phase, pass, inst, seqVars>>

\* a VerdictNode resumes after awaiting the judge in _a_generate_reason
ParReasonResumes ==
    /\ parStatus = "running"
    /\ ready # <<>>
    /\ tasks[Running].pc = "resume"
    /\ tasks[Running].on = "reason"
    /\ LET t == Running
           v == tasks[t].node
       IN  IF FaultAt(v, "call")
           THEN /\ metric' = [metric EXCEPT !["par"] = Failed(@, v)]
                /\ Fail(t)
           ELSE IF SchemaFallback(v, pass)
           THEN /\ metric' = [metric EXCEPT !["par"] =
                                 Invoked(@, "judge", v, FALSE, tasks[t].path)]
                /\ Await(t, "retry", tasks[t].text)
           ELSE /\ metric' = [metric EXCEPT !["par"] = Reasoned(@, v)]
                /\ Finish(t)
    /\ UNCHANGED <<buildVars, phase, pass, inst, seqVars>>

(***************************************************************************)
(* Specification                                                           *)
(***************************************************************************)
Build ==
    /\ phase = "build"
    /\ \/ \E verdict \in Labels, score \in ScoreArgs, g_eval \in BOOLEAN :
             NewVerdictNode(verdict, score, g_eval)
       \/ \E children \in ChildLists : NewTaskNode(children)
       \/ \E children \in ChildLists : NewBinaryJudgementNode(children)
       \/ \E children \in ChildLists : NewNonBinaryJudgementNode(children)

Start ==
    /\ phase = "build"
    /\ \E root \in Roots :
          \E stub \in Stubs(Len(nodes), Graph(root)) :
              \E depth \in 0..MaxDepth0, include_reason \in BOOLEAN,
                 judge \in Judges :
                    \E fault \in Faults(Graph(root), depth, include_reason, judge) :
                        StartPass(root, depth, stub, include_reason, judge, fault)

Sequential ==
    \/ TaskNode_execute
    \/ JudgementNode_execute
    \/ VerdictNode_execute
    \/ SeqJudgeReturns
    \/ SeqRetryReturns
    \/ SeqVisitChild
    \/ SeqChildrenDone
    \/ SeqMeasureReturns
    \/ SeqReasonReturns
    \/ RestartSequentialPass

Parallel ==
    \/ StartParallelPass
    \/ TaskNode_a_execute
    \/ JudgementNode_a_execute
    \/ VerdictNode_a_execute
    \/ \E t \in 1..Len(tasks) : AnswerArrives(t)
    \/ ParJudgeResumes
    \/ ParRetryResumes
    \/ \E t \in 1..Len(tasks) : GatherReturns(t)
    \/ \E t \in 1..Len(tasks) : GatherRaises(t)
    \/ ParMeasureResumes
    \/ ParReasonResumes

Next == Build \/ Start \/ Sequential \/ Parallel

Spec == Init /\ [][Next]_vars

\* the interpreter runs the next statement of the sequential pass and the
\* judge returns; the event loop runs what is ready, the judge's answers
\* arrive and a finished gather wakes its caller
FairSpec == Spec /\ WF_vars(Sequential) /\ WF_vars(Parallel)

(***************************************************************************)
(* Vocabulary of the properties                                            *)
(***************************************************************************)
LogEntries(s, n) ==
    {i \in 1..Len(metric[s]._verbose_steps) : metric[s]._verbose_steps[i].node = n}

\* the judge's result of node p is stored and its log entry appended
BodyDone(s, p) ==
    /\ ~IsNone(inst[s][p]._output) \/ ~IsNone(inst[s][p]._verdict)
    /\ LogEntries(s, p) # {}

Status(s) == IF s = "seq" THEN seqStatus ELSE parStatus
Finished(s) == Status(s) \in {"returned", "raised"}

\* the first pass on the instance has returned normally
FirstPassReturned(s) == Status(s) = "returned" /\ pass.passes[s] = 1

\* the judgement node J has resolved a verdict other than V's label
Differs(s, J, V) ==
    /\ ~IsNone(inst[s][J]._verdict)
    /\ Val(inst[s][J]._verdict).verdict # nodes[V].verdict

(***************************************************************************)
(* C1: in one pass every node appends at most one log entry, and every     *)
(* node reachable from the root that no verdict gate prunes has appended   *)
(* exactly one entry when the pass is over (the judge not failing).        *)
(***************************************************************************)
Pruned(s, v) ==
    /\ nodes[v].kind = "Verdict"
    /\ ~IsNone(nodes[v]._parent)
    /\ Differs(s, Val(nodes[v]._parent), v)

C1_ExactlyOneEntry ==
    phase = "run" =>
        \A s \in Strategies : \A n \in NodeIds :
            /\ Cardinality(LogEntries(s, n)) <= 1
            /\ (/\ Finished(s)
                /\ pass.fault = NoFault
                /\ n \in Graph(pass.root)
                /\ ~Pruned(s, n))
                  => Cardinality(LogEntries(s, n)) = 1

\* the same, for passes whose root is not a judgement node
C1_ExceptJudgementRoot ==
    (phase = "run" /\ ~IsJudgement(pass.root)) =>
        \A s \in Strategies : \A n \in NodeIds :
            /\ Cardinality(LogEntries(s, n)) <= 1
            /\ (/\ Finished(s)
                /\ pass.fault = NoFault
                /\ n \in Graph(pass.root)
                /\ ~Pruned(s, n))
                  => Cardinality(LogEntries(s, n)) = 1

(***************************************************************************)
(* C2: a node with N > 1 incoming edges passes the join check on its N-th  *)
(* arrival and on no other, so when its body runs every parent has stored  *)
(* its judge result and appended its log entry, and the body runs once; in *)
(* the sequential pass and in every interleaving of the parallel pass.     *)
(***************************************************************************)
C2_JoinOrdering ==
    phase = "run" =>
        \A s \in Strategies : \A n \in NodeIds :
            Cardinality(InEdges(n)) > 1 =>
                /\ inst[s][n].entered =
                      IF inst[s][n].visits >= Cardinality(InEdges(n)) THEN 1 ELSE 0
                /\ inst[s][n].entered > 0 =>
                      \A p \in Parents(n) : BodyDone(s, p)

\* the shared VerdictNode of the diamond has run its body in both passes
C2_Witness ==
    /\ phase = "run"
    /\ \E n \in NodeIds :
          /\ nodes[n].kind = "Verdict"
          /\ Cardinality(Parents(n)) > 1
          /\ inst["seq"][n].entered = 1 /\ LogEntries("seq", n) # {}
          /\ inst["par"][n].entered = 1 /\ LogEntries("par", n) # {}

(***************************************************************************)
(* C3: in the parallel pass the decrement of the join counter and its      *)
(* comparison with zero are one step: no arrival is lost (the counter is   *)
(* the number of declared edges minus the arrivals), two arrivals never    *)
(* both find zero, and once all have arrived exactly one has gone on.      *)
(***************************************************************************)
C3_AtomicJoin ==
    phase = "run" =>
        \A n \in NodeIds :
            Cardinality(InEdges(n)) > 0 =>
                /\ Val(inst["par"][n]._indegree) =
                      Cardinality(InEdges(n)) - inst["par"][n].visits
                /\ inst["par"][n].entered <= 1
                /\ inst["par"][n].visits = Cardinality(InEdges(n))
                      => inst["par"][n].entered = 1

\* two tasks of one join target, launched by two sibling branches that were
\* awaiting the judge at the same time, have both arrived
C3_Witness ==
    /\ parStatus = "running"
    /\ \E t1, t2 \in 1..Len(tasks) :
          /\ t1 # t2
          /\ tasks[t1].node = tasks[t2].node
          /\ tasks[t1].parent # tasks[t2].parent
          /\ tasks[t1].pc = "done" /\ tasks[t2].pc = "done"
          /\ inst["par"][tasks[t1].node].entered = 1

(***************************************************************************)
(* C4: a VerdictNode whose label differs from the verdict resolved by the  *)
(* judgement node registered as its parent never appends a log entry and   *)
(* never assigns the score or the reason, in either pass.                  *)
(***************************************************************************)
Silent(s, V) ==
    /\ LogEntries(s, V) = {}
    /\ metric[s].score_by # Some(V)
    /\ metric[s].reason_by # Some(V)

C4_RegisteredParent ==
    phase = "run" =>
        \A s \in Strategies : \A V \in NodeIds :
            (/\ nodes[V].kind = "Verdict"
             /\ ~IsNone(nodes[V]._parent)
             /\ IsJudgement(Val(nodes[V]._parent))
             /\ Differs(s, Val(nodes[V]._parent), V))
                => Silent(s, V)

\* C4 as stated: the same for every judgement node that declares the
\* VerdictNode as a child
C4_EveryDeclaringJudgement ==
    phase = "run" =>
        \A s \in Strategies : \A J \in NodeIds : \A V \in Children(J) :
            (IsJudgement(J) /\ Differs(s, J, V)) => Silent(s, V)

\* both passes are over and the gate has pruned a VerdictNode that has two
\* parents, on its last arrival
C4_Witness ==
    /\ seqStatus = "returned"
    /\ parStatus = "returned"
    /\ \E V \in NodeIds :
          /\ nodes[V].kind = "Verdict"
          /\ Cardinality(Parents(V)) > 1
          /\ \A s \in Strategies :
                /\ inst[s][V].entered = 1
                /\ Differs(s, Val(nodes[V]._parent), V)

(***************************************************************************)
(* C5: with the same graph and the same judge stub, the sequential pass    *)
(* and every interleaving of the parallel pass end with the same final     *)
(* score and the same final reason.                                        *)
(***************************************************************************)
C5_SameScoreAndReason ==
    (FirstPassReturned("seq") /\ FirstPassReturned("par")) =>
        /\ metric["seq"].score = metric["par"].score
        /\ metric["seq"].reason = metric["par"].reason

(***************************************************************************)
(* C6: with the same graph and the same judge stub, the sequential pass    *)
(* and every interleaving of the parallel pass log the same nodes, each    *)
(* with the same kind, depth and fields; only the order may differ.        *)
(***************************************************************************)
EntrySet(s) ==
    {metric[s]._verbose_steps[i] : i \in 1..Len(metric[s]._verbose_steps)}

C6_SameLogContent ==
    (FirstPassReturned("seq") /\ FirstPassReturned("par")) =>
        /\ EntrySet("seq") = EntrySet("par")
        /\ Len(metric["seq"]._verbose_steps) = Len(metric["par"]._verbose_steps)

(***************************************************************************)
(* C7: on the chain Task -> BinaryJudgement -> {Verdict(true, a),          *)
(* Verdict(false, b)} with the judgement resolved to v, a pass ends with   *)
(* the score of the child labelled v divided by 10 (1.0 for score 10), the *)
(* log is Task, BinaryJudgement, matching Verdict at depths d, d+1, d+2,   *)
(* and the other VerdictNode is never logged; in both passes.              *)
(***************************************************************************)
C7_ChainEndToEnd ==
    \A a \in ChainScores : \A b \in ChainScores :
        (phase = "run" /\ calls = Chain(a, b)) =>
            \A s \in Strategies :
                LET v == pass.stub[3].verdict
                    match == IF v = BoolLabel(TRUE) THEN 1 ELSE 2
                    given == IF v = BoolLabel(TRUE) THEN a ELSE b
                    log == metric[s]._verbose_steps
                IN  /\ LogEntries(s, 3 - match) = {}
                    /\ FirstPassReturned(s) =>
                          /\ ~IsNone(metric[s].score)
                          /\ Val(metric[s].score).num * 10
                                = given * Val(metric[s].score).den
                          /\ given = 10 =>
                                Val(metric[s].score).num = Val(metric[s].score).den
                          /\ Len(log) = 3
                          /\ log[1].node = 4 /\ log[1].kind = "TaskNode"
                          /\ log[2].node = 3 /\ log[2].kind = "BinaryJudgementNode"
                          /\ log[3].node = match /\ log[3].kind = "VerdictNode"
                          /\ log[1].depth = pass.depth
                          /\ log[2].depth = pass.depth + 1
                          /\ log[3].depth = pass.depth + 2

\* both passes over the chain with scores 10 and 0 are over, the judge having
\* answered true
C7_Witness ==
    /\ calls = Chain(10, 0)
    /\ seqStatus = "returned"
    /\ parStatus = "returned"
    /\ pass.stub[3].verdict = BoolLabel(TRUE)
    /\ metric["par"].score_by = Some(1)

(***************************************************************************)
(* C8: BinaryJudgementNode construction succeeds if and only if the        *)
(* children are exactly two VerdictNodes with boolean labels, one true and *)
(* one false.                                                              *)
(***************************************************************************)
C8_BinaryConstruction ==
    ctor.call.op = "Binary" =>
        LET ch == ctor.call.children IN
        (ctor.result = "ok") <=>
            /\ Len(ch) = 2
            /\ \A i \in 1..Len(ch) :
                  nodes[ch[i]].kind = "Verdict" /\ nodes[ch[i]].verdict.type = "bool"
            /\ {nodes[ch[i]].verdict.val : i \in 1..Len(ch)} = {"True", "False"}

\* a BinaryJudgementNode has been constructed on the pool
C8_Witness ==
    /\ ctor.call.op = "Binary"
    /\ ctor.result = "ok"
    /\ Len(calls) = Len(Pool) + 1

(***************************************************************************)
(* C9: NonBinaryJudgementNode construction succeeds if and only if there   *)
(* is at least one child, every child is a VerdictNode with a string       *)
(* label and the labels are pairwise distinct; the accepted labels cached  *)
(* on a constructed node are the labels of its children, during and after  *)
(* the passes too.                                                         *)
(***************************************************************************)
C9_NonBinaryConstruction ==
    /\ ctor.call.op = "NonBinary" =>
          LET ch == ctor.call.children IN
          (ctor.result = "ok") <=>
              /\ Len(ch) >= 1
              /\ \A i \in 1..Len(ch) :
                    nodes[ch[i]].kind = "Verdict" /\ nodes[ch[i]].verdict.type = "str"
              /\ \A i, j \in 1..Len(ch) :
                    i # j => nodes[ch[i]].verdict # nodes[ch[j]].verdict
    /\ \A n \in NodeIds :
          nodes[n].kind = "NonBinary" =>
              nodes[n]._verdict_options = {nodes[c].verdict.val : c \in Children(n)}

\* a NonBinaryJudgementNode with the labels a, b, c has been executed in both
\* passes
C9_Witness ==
    /\ seqStatus = "returned"
    /\ parStatus = "returned"
    /\ \E n \in NodeIds :
          /\ nodes[n].kind = "NonBinary"
          /\ nodes[n]._verdict_options = {"a", "b", "c"}
          /\ BodyDone("seq", n) /\ BodyDone("par", n)

(***************************************************************************)
(* C10: VerdictNode construction succeeds if and only if exactly one of    *)
(* score and g_eval is given and a given score is in 0..10; a score        *)
(* assigned by a fixed-score VerdictNode is its score divided by 10, and   *)
(* lies in [0, 1].                                                         *)
(***************************************************************************)
C10_VerdictConstruction ==
    /\ ctor.call.op = "Verdict" =>
          ((ctor.result = "ok") <=>
              /\ IsNone(ctor.call.score) # ~ctor.call.g_eval
              /\ ~IsNone(ctor.call.score) =>
                    (0 <= Val(ctor.call.score) /\ Val(ctor.call.score) <= 10))
    /\ \A s \in Strategies : \A v \in NodeIds :
          (metric[s].score_by = Some(v) /\ ~nodes[v].g_eval) =>
              /\ Val(metric[s].score).num * 10
                    = Val(nodes[v].score) * Val(metric[s].score).den
              /\ 0 <= Val(metric[s].score).num
              /\ Val(metric[s].score).num <= Val(metric[s].score).den

\* a VerdictNode with score 10 has been constructed and, as the root, has
\* assigned the score in both passes
C10_Witness ==
    /\ ctor.call.op = "Verdict"
    /\ ctor.result = "ok"
    /\ \A s \in Strategies :
          /\ Status(s) = "returned"
          /\ metric[s].score_by = Some(Len(nodes))
          /\ nodes[Len(nodes)].score = Some(10)

(***************************************************************************)
(* C11: after any sequence of successful constructions, the join counter   *)
(* of every node is the number of edges declared onto it (None if there is *)
(* none), every declaring parent is recorded on the child, and the number  *)
(* of parents recorded (the length of _parents, or the occupied _parent    *)
(* slot) equals the join counter.                                          *)
(***************************************************************************)
\* the parents recorded on node n, one per registration kept
RecordedParents(n) ==
    IF nodes[n].kind = "Verdict"
    THEN (IF IsNone(nodes[n]._parent) THEN <<>> ELSE <<Val(nodes[n]._parent)>>)
    ELSE (IF IsNone(nodes[n]._parents) THEN <<>> ELSE Val(nodes[n]._parents))

C11_CounterAndParents ==
    \A n \in NodeIds :
        /\ nodes[n]._indegree =
              IF InEdges(n) = {} THEN None ELSE Some(Cardinality(InEdges(n)))
        /\ Parents(n) \subseteq
              {RecordedParents(n)[i] : i \in 1..Len(RecordedParents(n))}
        /\ Len(RecordedParents(n)) =
              IF IsNone(nodes[n]._indegree) THEN 0 ELSE Val(nodes[n]._indegree)

(***************************************************************************)
(* C12: in the parallel pass a failure of a child task is propagated to    *)
(* the parent (the parent's gather raises) only when every child task      *)
(* launched at that fan-out has finished, completed or failed; never while *)
(* a sibling is still running.                                             *)
(***************************************************************************)
C12_PropagationAfterSiblings ==
    \A t \in 1..Len(tasks) :
        (tasks[t].pc = "failed" /\ ChildTasks(t) # {}) =>
            \A c \in ChildTasks(t) : tasks[c].pc \in {"done", "failed"}

(***************************************************************************)
(* C13: a failure of the judge at a node aborts the whole pass.  The       *)
(* failing TaskNode or judgement node appends no log entry, stores no      *)
(* output or verdict and visits no child; once the failure is raised, no   *)
(* node appends a log entry or assigns the score or the reason, and the    *)
(* log is the one of that moment; in both passes.                          *)
(***************************************************************************)
\* the arrivals at node c that can have come from parents other than p
ArrivalsNotFrom(c, p) == Cardinality({e \in InEdges(c) : e[1] # p})

AbortedAt(s) ==
    LET f == Val(metric[s].failure)
        n == f.node
    IN  /\ nodes[n].kind # "Verdict" =>
              /\ LogEntries(s, n) = {}
              /\ IsNone(inst[s][n]._output)
              /\ IsNone(inst[s][n]._verdict)
              /\ \A c \in Children(n) : inst[s][c].visits <= ArrivalsNotFrom(c, n)
        /\ metric[s]._verbose_steps = f.log
        /\ metric[s].score = f.score
        /\ metric[s].score_by = f.score_by
        /\ metric[s].reason = f.reason
        /\ metric[s].reason_by = f.reason_by

C13_FailureAbortsPass ==
    \A s \in Strategies : ~IsNone(metric[s].failure) => AbortedAt(s)

(***************************************************************************)
(* C14: the schema fallback is one bounded retry.  A node body invokes the *)
(* judge at most twice.  A TaskNode invokes it once, without a schema; a   *)
(* judgement node and the reason generation invoke it once, with the       *)
(* schema, when the judge is native or takes the schema, and once more,    *)
(* without a schema, when a generic judge rejects it.  If the extraction   *)
(* from the free text fails, the pass raises, the judgement node stores no *)
(* verdict, appends no log entry and visits no child, and the reason is    *)
(* not assigned.                                                           *)
(***************************************************************************)
\* the judge invocations made for node n, in order: TRUE with a schema
JudgeCalls(s, n) ==
    LET ByNode(e) == e.kind = "judge" /\ e.node = n
        made == SelectSeq(metric[s].events, ByNode)
    IN  [i \in 1..Len(made) |-> made[i].schema]

\* the body of node n has got its result from the judge
Answered(s, n) ==
    IF nodes[n].kind = "Verdict"
    THEN metric[s].reason_by = Some(n) /\ ~nodes[n].g_eval
    ELSE BodyDone(s, n)

Rejecting == ~pass.using_native_model /\ pass.rejects_schema

ExtractionFailed(s) ==
    /\ ~IsNone(metric[s].failure)
    /\ pass.fault.at = "extract"

C14_SingleFallback ==
    phase = "run" =>
        \A s \in Strategies :
            /\ \A n \in NodeIds :
                  /\ Len(JudgeCalls(s, n)) <= 2
                  /\ nodes[n].kind = "Task" =>
                        /\ JudgeCalls(s, n) \in {<<>>, <<FALSE>>}
                        /\ Answered(s, n) => JudgeCalls(s, n) = <<FALSE>>
                  /\ (nodes[n].kind # "Task" /\ ~Rejecting) =>
                        /\ JudgeCalls(s, n) \in {<<>>, <<TRUE>>}
                        /\ Answered(s, n) => JudgeCalls(s, n) = <<TRUE>>
                  /\ (nodes[n].kind # "Task" /\ Rejecting) =>
                        /\ JudgeCalls(s, n) \in {<<>>, <<TRUE>>, <<TRUE, FALSE>>}
                        /\ Answered(s, n) => JudgeCalls(s, n) = <<TRUE, FALSE>>
            /\ ExtractionFailed(s) =>
                  LET n == Val(metric[s].failure).node
                  IN  /\ JudgeCalls(s, n) = <<TRUE, FALSE>>
                      /\ pass.passes[s] = 1 => Status(s) # "returned"
                      /\ metric[s].reason_by # Some(n)
                      /\ IsJudgement(n) =>
                            /\ IsNone(inst[s][n]._verdict)
                            /\ LogEntries(s, n) = {}
                            /\ \A c \in Children(n) :
                                  inst[s][c].visits <= ArrivalsNotFrom(c, n)

\* with a generic judge that rejects the schema, a judgement node has stored
\* its verdict in both passes and the extraction has then failed at another
\* judgement node, in both passes
C14_Witness ==
    /\ phase = "run"
    /\ Rejecting
    /\ \A s \in Strategies :
          /\ ExtractionFailed(s)
          /\ IsJudgement(Val(metric[s].failure).node)
          /\ \E n \in NodeIds :
                /\ IsJudgement(n)
                /\ BodyDone(s, n)
                /\ JudgeCalls(s, n) = <<TRUE, FALSE>>

(***************************************************************************)
(* C15: in the parallel pass a call of _a_execute returns normally only    *)
(* when every task it launched, and every task launched below those, has   *)
(* completed; so when the root's call has returned every task is done, no  *)
(* node is running or awaiting the judge, and nothing is left to write the *)
(* log, the score or the reason.                                           *)
(***************************************************************************)
\* task c was launched by t or below a task launched by t
Descendant(c, t) ==
    /\ Len(tasks[c].path) > Len(tasks[t].path)
    /\ SubSeq(tasks[c].path, 1, Len(tasks[t].path)) = tasks[t].path

C15_StructuredJoin ==
    /\ \A t \in 1..Len(tasks) :
          tasks[t].pc = "done" =>
              \A c \in 1..Len(tasks) : Descendant(c, t) => tasks[c].pc = "done"
    /\ parStatus = "returned" =>
          /\ \A t \in 1..Len(tasks) : tasks[t].pc = "done"
          /\ ready = <<>>

\* the root's call has returned after a fan-out of several tasks and, two
\* levels below it, a task that awaited the judge or the nested GEval
C15_Witness ==
    /\ parStatus = "returned"
    /\ pass.passes["par"] = 1
    /\ \E t \in 1..Len(tasks) :
          /\ Len(tasks[t].path) = 2
          /\ tasks[t].on # ""
          /\ tasks[t].pc = "done"
    /\ Cardinality({t \in 1..Len(tasks) : Len(tasks[t].path) = 1}) > 1

(***************************************************************************)
(* C16: an arrival at a node that leaves its join counter non-zero returns *)
(* at once and changes nothing but the counter: the judge is not invoked,  *)
(* no output or verdict is stored, nothing is logged, the score, the       *)
(* reason and the cost are untouched and no child is visited (no call is   *)
(* made, no task is launched).                                             *)
(***************************************************************************)
\* this step is an arrival at node n in strategy s that leaves the counter
\* non-zero
EarlyArrival(s, n) ==
    /\ inst'[s][n].visits = inst[s][n].visits + 1
    /\ Val(inst'[s][n]._indegree) # 0

\* the call returns, or the task finishes, having started nothing
ReturnsAtOnce(s) ==
    IF s = "seq"
    THEN stack' = SubSeq(stack, 1, Len(stack) - 1)
    ELSE /\ tasks' = [tasks EXCEPT ![Head(ready)].pc = "done"]
         /\ ready' = Tail(ready)

C16_EarlyArrivalFrame ==
    [][(phase = "run" /\ phase' = "run") =>
          \A s \in Strategies : \A n \in NodeIds :
              EarlyArrival(s, n) =>
                  /\ metric' = metric
                  /\ inst' = [inst EXCEPT
                                 ![s][n]._indegree = decrement_indegree(@),
                                 ![s][n].visits = @ + 1]
                  /\ ReturnsAtOnce(s)]_vars

\* in both passes a node with two incoming edges has been reached once and
\* has not gone past its join check
C16_Witness ==
    /\ phase = "run"
    /\ \E n \in NodeIds :
          /\ Cardinality(InEdges(n)) = 2
          /\ \A s \in Strategies :
                inst[s][n].visits = 1 /\ inst[s][n].entered = 0

(***************************************************************************)
(* C17: no node runs its body twice.  Over all the visits to a node of a   *)
(* built graph, those of a later pass on the same instance included (the   *)
(* counters are not reset), at most one goes past the join check; and a    *)
(* pass started again at the root stores nothing, logs nothing, invokes    *)
(* no judge and enters no node.                                            *)
(***************************************************************************)
\* a step of a second or later pass on the instance of strategy s
LaterPassStep(s) == pass.passes[s] >= 2 /\ pass'.passes[s] >= 2

C17_NoReexecution ==
    /\ [](phase = "run" =>
            \A s \in Strategies : \A n \in NodeIds : inst[s][n].entered <= 1)
    /\ [][\A s \in Strategies :
              LaterPassStep(s) =>
                  /\ metric'[s] = metric[s]
                  /\ \A n \in NodeIds :
                        /\ inst'[s][n].entered = inst[s][n].entered
                        /\ inst'[s][n]._output = inst[s][n]._output
                        /\ inst'[s][n]._verdict = inst[s][n]._verdict
                        /\ n # pass.root => inst'[s][n] = inst[s][n]]_vars

\* a second pass has been run to its end on both instances, whose root had
\* run its body in the first pass
C17_Witness ==
    /\ phase = "run"
    /\ \A s \in Strategies :
          /\ pass.passes[s] = 2
          /\ Status(s) = "returned"
          /\ BodyDone(s, pass.root)
          /\ inst[s][pass.root].visits = 2
          /\ Val(inst[s][pass.root]._indegree) < 0

(***************************************************************************)
(* C18: the sequential traversal is strictly depth-first.  Every judge     *)
(* invocation and every log entry is produced by the node that the visit   *)
(* it belongs to reaches along the declared children, and whatever is      *)
(* produced during the visit to an earlier child, its descendants          *)
(* included, precedes whatever is produced during the visit to a later     *)
(* child of the same parent; at most one call is inside the judge.         *)
(***************************************************************************)
RECURSIVE NodeAt(_, _)
\* the node a visit reaches from n along the child indices of path
NodeAt(n, path) ==
    IF path = <<>> THEN n
    ELSE NodeAt(nodes[n].children[Head(path)], Tail(path))

\* paths p and q part at position k: the same parent, two of its children
PartAt(p, q, k) ==
    /\ k <= Len(p)
    /\ k <= Len(q)
    /\ SubSeq(p, 1, k - 1) = SubSeq(q, 1, k - 1)
    /\ p[k] # q[k]

\* the calls of the stack that are inside the judge or the nested GEval
InsideJudge ==
    {k \in 1..Len(stack) : stack[k].pc \in {"judge", "retry", "measure", "reason"}}

C18_DepthFirst ==
    phase = "run" =>
        LET ev == metric["seq"].events
        IN  /\ \A a \in 1..Len(ev) : ev[a].node = NodeAt(pass.root, ev[a].path)
            /\ \A a, b \in 1..Len(ev) :
                  a < b =>
                      \A k \in 1..Len(ev[a].path) :
                          PartAt(ev[a].path, ev[b].path, k) =>
                              ev[a].path[k] < ev[b].path[k]
            /\ Cardinality(InsideJudge) <= 1

\* the first sequential pass returned, and something produced by a
\* descendant under one child is followed by something produced under a
\* later child of the same parent
C18_Witness ==
    /\ phase = "run"
    /\ FirstPassReturned("seq")
    /\ LET ev == metric["seq"].events
       IN  \E a, b \in 1..Len(ev) : \E k \in 1..Len(ev[b].path) :
              /\ a < b
              /\ PartAt(ev[a].path, ev[b].path, k)
              /\ Len(ev[a].path) > k
              /\ ev[a].kind = "judge"
              /\ ev[b].kind = "log"

(***************************************************************************)
(* C19 as stated: in the sequential pass, of two children of the same      *)
(* parent that both execute, the one declared earlier has its log entry    *)
(* before the one declared later.                                          *)
(***************************************************************************)
\* the nodes of the log of strategy s, in the order of their entries
LogNodes(s) ==
    [i \in 1..Len(metric[s]._verbose_steps) |-> metric[s]._verbose_steps[i].node]

\* the position of the log entry of node n, which has one
LogPos(s, n) == CHOOSE i \in LogEntries(s, n) : TRUE

C19_DeclarationOrder ==
    phase = "run" =>
        \A p \in NodeIds : \A i, j \in 1..Len(nodes[p].children) :
            LET ci == nodes[p].children[i]
                cj == nodes[p].children[j]
            IN  (/\ i < j
                 /\ ci # cj
                 /\ LogEntries("seq", p) # {}
                 /\ LogEntries("seq", ci) # {}
                 /\ LogEntries("seq", cj) # {})
                => LogPos("seq", ci) < LogPos("seq", cj)

(***************************************************************************)
(* C19, amended: the log of the sequential pass is a function of the       *)
(* graph, the root, the judge stub and the stubbed failure: it is the      *)
(* sequence of nodes that a depth-first walk of the declared children      *)
(* gives when each node is logged at its last arrival.  Of two children    *)
(* of the same parent whose bodies run during that parent's visits to      *)
(* them, the one declared earlier has its log entry first; a child whose   *)
(* last arrival comes from under a later sibling is logged after that      *)
(* sibling.                                                                *)
(***************************************************************************)
\* the judge, or the extraction of its free text, fails in the body of n
BodyFails(n) ==
    \/ FaultAt(n, "call") /\ (nodes[n].kind = "Verdict" =>
                                 nodes[n].g_eval \/ pass.include_reason)
    \/ /\ FaultAt(n, "extract")
       /\ SchemaFallback(n, pass)
       /\ nodes[n].kind = "Verdict" => pass.include_reason

\* the verdict gate of v, its parent judgement node answering as stubbed
StubGateShut(v) ==
    /\ ~IsNone(nodes[v]._parent)
    /\ IsJudgement(Val(nodes[v]._parent))
    /\ pass.stub[Val(nodes[v]._parent)].verdict # nodes[v].verdict

RECURSIVE ExpectedVisit(_, _)
RECURSIVE ExpectedLoop(_, _, _)
\* the walk's visit to node n: w holds the join counters, the nodes logged
\* so far and whether an exception has ended the pass
ExpectedVisit(n, w) ==
    LET c == decrement_indegree(w.ind[n])
        w1 == [w EXCEPT !.ind[n] = c]
        w2 == [w1 EXCEPT !.log = Append(@, n)]
    IN  IF Val(c) # 0 THEN w1
        ELSE IF nodes[n].kind = "Verdict"
        THEN IF StubGateShut(n) THEN w1
             ELSE [w2 EXCEPT !.raised = BodyFails(n)]
        ELSE IF IsJudgement(n) /\ IsNone(nodes[n]._parents)
        THEN [w1 EXCEPT !.raised = TRUE]
        ELSE IF BodyFails(n) THEN [w1 EXCEPT !.raised = TRUE]
        ELSE ExpectedLoop(n, 1, w2)

\* the walk's loop over the children of p, from the i-th on
ExpectedLoop(p, i, w) ==
    IF w.raised \/ i > Len(nodes[p].children) THEN w
    ELSE ExpectedLoop(p, i + 1, ExpectedVisit(nodes[p].children[i], w))

ExpectedLog ==
    ExpectedVisit(pass.root,
                  [ind |-> [n \in NodeIds |-> nodes[n]._indegree],
                   log |-> <<>>, raised |-> FALSE]).log

IsPrefix(a, b) == Len(a) <= Len(b) /\ a = SubSeq(b, 1, Len(a))

\* the log events of two children's bodies run in the visits of one call of
\* their parent: paths that differ in their last index only
SameCall(p, q) ==
    /\ Len(p) = Len(q)
    /\ Len(p) >= 1
    /\ PartAt(p, q, Len(p))

C19_LastArrivalOrder ==
    phase = "run" =>
        LET ev == metric["seq"].events
        IN  /\ IsPrefix(LogNodes("seq"), ExpectedLog)
            /\ Finished("seq") => LogNodes("seq") = ExpectedLog
            /\ \A a, b \in 1..Len(ev) :
                  (/\ ev[a].kind = "log"
                   /\ ev[b].kind = "log"
                   /\ SameCall(ev[a].path, ev[b].path)
                   /\ ev[a].path[Len(ev[a].path)] < ev[b].path[Len(ev[b].path)])
                  => a < b

\* the first sequential pass returned, two children logged in the visits
\* of one call of their parent, and another child, declared before a
\* sibling, logged after it
C19_Witness ==
    /\ phase = "run"
    /\ FirstPassReturned("seq")
    /\ LET ev == metric["seq"].events
       IN  \E a, b \in 1..Len(ev) :
              /\ a < b
              /\ ev[a].kind = "log"
              /\ ev[b].kind = "log"
              /\ SameCall(ev[a].path, ev[b].path)
    /\ \E p \in NodeIds : \E i, j \in 1..Len(nodes[p].children) :
          /\ i < j
          /\ LogEntries("seq", p) # {}
          /\ LogEntries("seq", nodes[p].children[i]) # {}
          /\ LogEntries("seq", nodes[p].children[j]) # {}
          /\ LogPos("seq", nodes[p].children[i]) > LogPos("seq", nodes[p].children[j])

(***************************************************************************)
(* C20: a root of any variant executes its body.  When a pass on a fresh   *)
(* instance, started at a node with no incoming edges and with a judge     *)
(* that does not fail, has ended, the root has gone past the join check    *)
(* and has appended its log entry, and a Task or judgement root has        *)
(* invoked the judge, in both strategies.                                  *)
(***************************************************************************)
C20_AnyRootExecutes ==
    \A s \in Strategies :
        (/\ phase = "run"
         /\ pass.passes[s] = 1
         /\ Finished(s)
         /\ pass.fault = NoFault
         /\ IsNone(nodes[pass.root]._indegree))
        => /\ inst[s][pass.root].entered = 1
           /\ LogEntries(s, pass.root) # {}
           /\ nodes[pass.root].kind # "Verdict" =>
                 \E e \in 1..Len(metric[s].events) :
                     /\ metric[s].events[e].kind = "judge"
                     /\ metric[s].events[e].node = pass.root

(***************************************************************************)
(* C21: when a pass with the reason requested has returned, the final      *)
(* score and the final reason were written by the same VerdictNode, in     *)
(* both strategies.                                                        *)
(***************************************************************************)
C21_SameWriter ==
    \A s \in Strategies :
        (/\ phase = "run"
         /\ FirstPassReturned(s)
         /\ pass.include_reason
         /\ ~IsNone(metric[s].score_by))
        => metric[s].reason_by = metric[s].score_by

(***************************************************************************)
(* C22: a pass terminates.  For every graph the constructors build and a   *)
(* judge whose every invocation ends, a pass that has been started on      *)
(* either instance ends, by returning or by an exception, under every      *)
(* fair schedule; and when the parallel pass has returned no task is left  *)
(* behind, at a join or anywhere else.                                     *)
(***************************************************************************)
C22_PassTerminates ==
    /\ \A s \in Strategies : (Status(s) = "running") ~> Finished(s)
    /\ [](parStatus = "returned" =>
             \A t \in 1..Len(tasks) : tasks[t].pc = "done")

\* both first passes returned on a graph with a join: some node was
\* arrived at more than once, and the parallel pass ran a task per arrival
C22_Witness ==
    /\ phase = "run"
    /\ FirstPassReturned("seq")
    /\ FirstPassReturned("par")
    /\ pass.passes["seq"] = 1
    /\ \E n \in NodeIds : n # pass.root /\ inst["par"][n].visits >= 2
    /\ Len(tasks) >= 4
    /\ \A t \in 1..Len(tasks) : tasks[t].pc = "done"

====
